---- MODULE Spec2Model ----
(***************************************************************************)
(* Coin game server (src/server/game.js): the game engine on top of a      *)
(* Redis store reached through ONE node_redis connection.                  *)
(*                                                                         *)
(* Scheduling model.  Node runs one callback at a time; every store        *)
(* command is written to the connection when it is issued and Redis        *)
(* executes the commands of a connection in the order they were sent,      *)
(* replying in the same order.  So the model holds two FIFO queues:        *)
(*   cmdQ   commands sent and not yet executed by Redis;                    *)
(*   replyQ replies produced and not yet dispatched to their callback.      *)
(* client.multi() ... exec() is sent as one MULTI/EXEC transaction, which  *)
(* Redis executes atomically: it is ONE queue entry holding several        *)
(* commands.  A command issued without a callback (zincrby, hdel, set in   *)
(* move) is executed but its reply is dropped.                             *)
(*                                                                         *)
(* Store values.  player:<name> holds the string "x,y"; the coins hash is  *)
(* keyed by the string "a,b".  Both are decimal renderings of a pair of    *)
(* integers, which is injective, so a record/key is modelled as the pair   *)
(* <<a, b>>.  The absent value (Redis nil, JS null) is Null for a          *)
(* position, 0 for a coin value and NoScore for a sorted-set member.       *)
(***************************************************************************)
EXTENDS Integers, Sequences, FiniteSets, TLC

\* ------------------------------------------------------------------ bounds
\* The grid is square in the source (WIDTH = HEIGHT = 64); N scales it down.
N == 2
\* NUM_COINS is 100 in the source; the tiers 50 / 75 / 95 of placeCoins are
\* scaled with it.
NUM_COINS == 2
Tier1 == 1
Tier2 == 2
Tier3 == 3
\* number of addPlayer calls and of move calls issued in one behaviour
MaxAdds == 2
MaxMoves == 3
\* number of addPlayer / move / state calls in progress at the same time
MaxInFlight == 2
\* number of connected sessions (sockets)
MaxSess == 1
\* state() alone: number of calls, and the greatest score on
\* the score board it reads
MaxSnapshots == 2
MaxScore == 2

\* ------------------------------------------------------- program constants
WIDTH == N
HEIGHT == N
MAX_PLAYER_NAME_LENGTH == 32

Name32 == "abcdefghijklmnopqrstuvwxyzABCDEF"
Name33 == "abcdefghijklmnopqrstuvwxyzABCDEFG"
\* the names passed to addPlayer: empty, of the greatest accepted length, and
\* one character too long; move is called for the one name that can be
\* admitted, before and after its admission
Names == {"", Name32, Name33}
MoveNames == {Name32}
\* the name messages the sessions send, as received
RawNames == {"al", " bo "}
\* String.prototype.trim on the name messages above
trim(name) ==
    CASE name = "al" -> "al"
      [] name = " bo " -> "bo"
      [] OTHER -> name
\* every name that can reach the store
StoreNames == Names \cup {trim(raw) : raw \in RawNames}
\* the names above in the byte order Redis uses to order members of equal score
NameOrder == << "", Name32, Name33, "al", "bo" >>
Sessions == 1 .. MaxSess
Directions == {"U", "R", "D", "L", "X"}
\* the directions the sessions send in their move messages
SessDirections == {"U", "R", "D", "L"}

Cells == (0 .. WIDTH - 1) \X (0 .. HEIGHT - 1)
Null == <<>>
NoScore == -1

VARIABLES
    usednames,   \* Redis set 'usednames'
    player,      \* Redis strings 'player:<name>': name -> cell or Null
    scores,      \* Redis sorted set 'scores': name -> score or NoScore
    coins,       \* Redis hash 'coins': key -> value, 0 when the key is absent
    cmdQ,        \* commands sent to Redis, in sending order
    replyQ,      \* replies whose callback has not run yet
    calls,       \* the calls in progress, with their closure variables
    nAdds,       \* number of addPlayer calls made
    nMoves,      \* number of move calls made
    outcomes,    \* history: per name, how many addPlayer calls reported
                 \* admitted (callback(null, true)) and rejected
                 \* (callback(null, false)), and how many of the rejected
                 \* ones had sent their MULTI batch (raced)
    crashed,     \* an exception escaped a callback: the node process is gone
    depletions,  \* history: number of times a pickup emptied the coin field
    triggers,    \* history: number of placeCoins() calls made by move
    picked,      \* history: total value of the coins removed by hdel
    sessions,    \* per socket: is nameListener registered, the names of the
                 \* 'move' listeners registered (in order), and history: the
                 \* welcome and badname messages emitted to it
    broadcasts,  \* history: number of io.emit('state', ...) made
    snapshot     \* the value of the last io.emit('state', ...)

sessVars == <<sessions, broadcasts, snapshot>>

vars == <<usednames, player, scores, coins, cmdQ, replyQ, calls, nAdds,
          nMoves, outcomes, crashed, depletions, triggers, picked, sessions,
          broadcasts, snapshot>>

\* ----------------------------------------------------------- gameutil.js
clamp(value, low, high) ==
    IF value < low THEN low ELSE IF value > high THEN high ELSE value

randomPoint(width, height) == (0 .. width - 1) \X (0 .. height - 1)

\* permutation(n).slice(0, k): k distinct indices of 0..n-1.  The random
\* permutations are drawn from the n rotations r, r+1, ..., r+n-1 (mod n).
permutationSlice(n, k) ==
    LET m == IF k < n THEN k ELSE n
    IN  {s \in [1 .. m -> 0 .. n - 1] :
            \A i \in 1 .. m : s[i] = (s[1] + i - 1) % n}

\* ------------------------------------------------------------------ Redis
Cmd(op, name, cell, val) == [op |-> op, name |-> name, cell |-> cell, val |-> val]
Single(call, cmd, cb) == [call |-> call, cmds |-> <<cmd>>, cb |-> cb]
Multi(call, cmds) == [call |-> call, cmds |-> cmds, cb |-> TRUE]

Store == [usednames |-> usednames, player |-> player, scores |-> scores,
          coins |-> coins]

CoinCount(c) == Cardinality({k \in DOMAIN c : c[k] # 0})

Rank(n) == CHOOSE i \in 1 .. Len(NameOrder) : NameOrder[i] = n

\* the elements of the set S of names as a sequence, greatest (score, name)
\* first
RECURSIVE Descending(_, _)
Descending(S, sc) ==
    IF S = {} THEN << >>
    ELSE LET top == CHOOSE n \in S : \A m \in S :
                       \/ sc[n] > sc[m]
                       \/ sc[n] = sc[m] /\ Rank(n) >= Rank(m)
         IN  <<top>> \o Descending(S \ {top}, sc)

\* mutant: ZRANGE, lowest score first
ZrangeWithScores(sc) ==
    LET desc    == Descending({n \in DOMAIN sc : sc[n] # NoScore}, sc)
        members == [i \in 1 .. Len(desc) |-> desc[Len(desc) + 1 - i]]
    IN  [i \in 1 .. 2 * Len(members) |->
            IF i % 2 = 1 THEN members[(i + 1) \div 2] ELSE sc[members[i \div 2]]]

\* ZREVRANGE scores 0 -1 WITHSCORES: member, score, member, score, ...
ZrevrangeWithScores(sc) ==
    LET members == Descending({n \in DOMAIN sc : sc[n] # NoScore}, sc)
    IN  [i \in 1 .. 2 * Len(members) |->
            IF i % 2 = 1 THEN members[(i + 1) \div 2] ELSE sc[members[i \div 2]]]

\* KEYS player:*, in the order of NameOrder
KeysReply(pl) ==
    LET S == {n \in DOMAIN pl : pl[n] # Null}
    IN  Descending(S, [n \in S |-> 0])

\* one Redis command: the store after it and its reply
RedisApply(c, st) ==
    CASE c.op = "sismember" ->
           [st |-> st, reply |-> IF c.name \in st.usednames THEN 1 ELSE 0]
      [] c.op = "sadd" ->
           [st |-> [st EXCEPT !.usednames = @ \cup {c.name}],
            reply |-> IF c.name \in st.usednames THEN 0 ELSE 1]
      [] c.op = "set" ->                       \* reply "OK", a truthy value
           [st |-> [st EXCEPT !.player[c.name] = c.cell], reply |-> 1]
      [] c.op = "get" ->
           [st |-> st, reply |-> st.player[c.name]]
      [] c.op = "zadd" ->         \* sets the score, replies the number added
           [st |-> [st EXCEPT !.scores[c.name] = c.val],
            reply |-> IF st.scores[c.name] = NoScore THEN 1 ELSE 0]
      [] c.op = "zincrby" ->
           LET old == IF st.scores[c.name] = NoScore THEN 0 ELSE st.scores[c.name]
           IN  [st |-> [st EXCEPT !.scores[c.name] = old + c.val],
                reply |-> old + c.val]
      [] c.op = "hget" ->
           [st |-> st,
            reply |-> IF c.cell \in DOMAIN st.coins THEN st.coins[c.cell] ELSE 0]
      [] c.op = "hsetnx" ->
           IF st.coins[c.cell] = 0
           THEN [st |-> [st EXCEPT !.coins[c.cell] = c.val], reply |-> 1]
           ELSE [st |-> st, reply |-> 0]
      [] c.op = "hdel" ->
           IF c.cell \in DOMAIN st.coins /\ st.coins[c.cell] # 0
           THEN [st |-> [st EXCEPT !.coins[c.cell] = 0], reply |-> 1]
           ELSE [st |-> st, reply |-> 0]
      [] c.op = "hlen" ->
           [st |-> st, reply |-> CoinCount(st.coins)]
      [] c.op = "keys" ->                 \* the names n with a key player:<n>
           [st |-> st, reply |-> KeysReply(st.player)]
      [] c.op = "mget" ->
           [st |-> st, reply |-> [i \in 1 .. Len(c.cell) |-> st.player[c.cell[i]]]]
      [] c.op = "zrevrange" ->
           [st |-> st, reply |-> ZrevrangeWithScores(st.scores)]
      [] c.op = "hgetall" ->
           [st |-> st, reply |-> st.coins]
      [] c.op = "del" ->
           [st |-> [st EXCEPT !.coins = [k \in DOMAIN st.coins |-> 0]],
            reply |-> IF CoinCount(st.coins) = 0 THEN 0 ELSE 1]

\* the commands of one queue entry, executed with nothing in between
RECURSIVE RedisRun(_, _)
RedisRun(cmds, st) ==
    IF cmds = <<>> THEN [st |-> st, res |-> <<>>]
    ELSE LET one  == RedisApply(Head(cmds), st)
             rest == RedisRun(Tail(cmds), one.st)
         IN  [st |-> rest.st, res |-> <<one.reply>> \o rest.res]

\* ----------------------------------------------------------------- engine
\* A call in progress: its arguments, the callback it waits for (pc), the
\* closure variables of move ([x, y], [newX, newY], the hget result) and of
\* state (names, positions, scores), the socket whose listener made the
\* call (sess, 0 for a direct call of the API) and, as history of a state
\* call, the names that had been reported admitted when it was made.
NewCall(kind, name, dir, pc) ==
    [kind |-> kind, name |-> name, dir |-> dir, pc |-> pc,
     pos |-> Null, newpos |-> Null, coin |-> 0,
     sess |-> 0, names |-> Null, positions |-> Null, scores |-> Null,
     admitted |-> {}]

IdleCall == NewCall("none", "", "", "idle")

\* slot 0 is the placeCoins() of module load
Slots == 0 .. MaxInFlight
FreeSlots == {s \in Slots \ {0} : calls[s].pc = "idle"}
FreeSlot == CHOOSE s \in FreeSlots : \A t \in FreeSlots : s <= t

Truthy(v) == v # 0

\* res.reduce((sum, num) => sum && num): JS a && b is a when a is falsy
RECURSIVE ReduceAnd(_)
ReduceAnd(res) ==
    IF Len(res) = 1 THEN res[1]
    ELSE LET sum == ReduceAnd(SubSeq(res, 1, Len(res) - 1))
         IN  IF Truthy(sum) THEN res[Len(res)] ELSE sum

\* mutant: the upper length check is missing
NameRejectedNoMax(name, res) ==
    Len(name) = 0 \/ Truthy(res)

\* mutant: the reply of sismember is ignored
NameRejectedNoLookup(name, res) ==
    Len(name) = 0 \/ Len(name) > MAX_PLAYER_NAME_LENGTH

NameRejected(name, res) ==
    Len(name) = 0 \/ Len(name) > MAX_PLAYER_NAME_LENGTH \/ Truthy(res)

\* mutant: the batch forgets the score-board entry
AddBatchNoScore(name, point) ==
    << Cmd("sadd", name, Null, 0),
       Cmd("set", name, point, 0) >>

AddBatch(name, point) ==
    << Cmd("sadd", name, Null, 0),
       Cmd("set", name, point, 0),
       Cmd("zadd", name, Null, 0) >>

\* mutant: the outcome looks at the reply of SET only
AddOutcomeSetOnly(res) == Truthy(res[2])

AddOutcome(res) == Truthy(ReduceAnd(res))

coinValue(i) ==
    IF i < Tier1 THEN 1 ELSE IF i < Tier2 THEN 2 ELSE IF i < Tier3 THEN 5 ELSE 10

coinIndex(position) == << position \div WIDTH, position % WIDTH >>

CoinBatch(perm) ==
    [i \in 1 .. Len(perm) |->
        Cmd("hsetnx", "", coinIndex(perm[i]), coinValue(i - 1))]

\* mutant: U and D exchanged
DeltaFlipped(direction) ==
    CASE direction = "U" -> <<0, 1>>
      [] direction = "R" -> <<1, 0>>
      [] direction = "D" -> <<0, -1>>
      [] direction = "L" -> <<-1, 0>>
      [] OTHER -> Null

\* mutant: an unknown direction is taken as "stay"
DeltaDefaultStay(direction) ==
    CASE direction = "U" -> <<0, -1>>
      [] direction = "R" -> <<1, 0>>
      [] direction = "D" -> <<0, 1>>
      [] direction = "L" -> <<-1, 0>>
      [] OTHER -> <<0, 0>>

Delta(direction) ==
    CASE direction = "U" -> <<0, -1>>
      [] direction = "R" -> <<1, 0>>
      [] direction = "D" -> <<0, 1>>
      [] direction = "L" -> <<-1, 0>>
      [] OTHER -> Null

\* mutant: the step is not clamped
NewPosNoClamp(pos, delta) ==
    << pos[1] + delta[1], pos[2] + delta[2] >>

NewPos(pos, delta) ==
    << clamp(pos[1] + delta[1], 0, WIDTH - 1),
       clamp(pos[2] + delta[2], 0, HEIGHT - 1) >>

\* mutant: the coin is removed before it is credited
MoveWritesDelFirst(call, name, newpos, res) ==
    (IF Truthy(res)
     THEN << Single(call, Cmd("hdel", "", newpos, 0), FALSE),
             Single(call, Cmd("zincrby", name, Null, res), FALSE) >>
     ELSE << >>)
    \o << Single(call, Cmd("set", name, newpos, 0), FALSE),
          Single(call, Cmd("hlen", "", Null, 0), TRUE) >>

\* what the hget callback of move sends
MoveWrites(call, name, newpos, res) ==
    (IF Truthy(res)
     THEN << Single(call, Cmd("zincrby", name, Null, res), FALSE),
             Single(call, Cmd("hdel", "", newpos, 0), FALSE) >>
     ELSE << >>)
    \o << Single(call, Cmd("set", name, newpos, 0), FALSE),
          Single(call, Cmd("hlen", "", Null, 0), TRUE) >>

\* --------------------------------------------------------------- index.js
\* the callback index.js passes to addPlayer, nameWorks false: badname
NameRefused(sess) ==
    IF sess = 0 THEN sessions
    ELSE [sessions EXCEPT ![sess].badnames = @ + 1]

\* the same callback, nameWorks true: welcome, the name listener is removed
\* and a move listener bound to the name is added
NameAccepted(sess, name) ==
    [sessions EXCEPT ![sess].welcomes = @ + 1,
                     ![sess].listening = FALSE,
                     ![sess].handlers = Append(@, name)]

\* state(callback) starts with KEYS player:*
StateCall(sess, known) ==
    [NewCall("state", "", "", "keys") EXCEPT !.sess = sess, !.admitted = known]

\* the for loop of state(): res2 taken two by two
ScorePairs(res2) ==
    [i \in 1 .. (Len(res2) + 1) \div 2 |-> << res2[2 * i - 1], res2[2 * i] >>]

\* ------------------------------------------------------------------- Init
\* Module load: empty store, and the placeCoins() of the last line has sent
\* its DEL.
Init ==
    /\ usednames = {}
    /\ player = [n \in StoreNames |-> Null]
    /\ scores = [n \in StoreNames |-> NoScore]
    /\ coins = [k \in Cells |-> 0]
    /\ calls = [s \in Slots |-> IF s = 0 THEN NewCall("place", "", "", "del")
                                ELSE IdleCall]
    /\ nAdds = 0
    /\ nMoves = 0
    /\ outcomes = [n \in StoreNames |-> [admitted |-> 0, rejected |-> 0, raced |-> 0]]
    /\ cmdQ = << Single(0, Cmd("del", "", Null, 0), TRUE) >>
    /\ replyQ = << >>
    /\ crashed = FALSE
    /\ depletions = 0
    /\ triggers = 0
    /\ picked = 0
    /\ sessions = [k \in Sessions |->
                      [listening |-> TRUE, handlers |-> << >>,
                       welcomes |-> 0, badnames |-> 0]]
    /\ broadcasts = 0
    /\ snapshot = Null

\* ---------------------------------------------------------- the API calls
CallAddPlayer(name) ==
    /\ ~crashed
    /\ nAdds < MaxAdds
    /\ FreeSlots # {}
    /\ nAdds' = nAdds + 1
    /\ calls' = [calls EXCEPT ![FreeSlot] = NewCall("add", name, "", "sismember")]
    /\ cmdQ' = Append(cmdQ, Single(FreeSlot, Cmd("sismember", name, Null, 0), TRUE))
    /\ UNCHANGED <<usednames, player, scores, coins, replyQ, nMoves, outcomes,
                   crashed, depletions, triggers>>
    /\ UNCHANGED <<picked, sessions, broadcasts, snapshot>>

CallMove(direction, name) ==
    /\ ~crashed
    /\ nMoves < MaxMoves
    /\ FreeSlots # {}
    /\ nMoves' = nMoves + 1
    /\ IF Delta(direction) # Null
       THEN /\ calls' = [calls EXCEPT ![FreeSlot] = NewCall("move", name, direction, "get")]
            /\ cmdQ' = Append(cmdQ, Single(FreeSlot, Cmd("get", name, Null, 0), TRUE))
       ELSE /\ calls' = calls
            /\ cmdQ' = cmdQ
    /\ UNCHANGED <<usednames, player, scores, coins, replyQ, nAdds, outcomes,
                   crashed, depletions, triggers>>
    /\ UNCHANGED <<picked, sessions, broadcasts, snapshot>>

\* ------------------------------------------------------------------ Redis
\* Redis executes the oldest command (or transaction) of the connection.
RedisExec ==
    /\ cmdQ # << >>
    /\ LET e   == Head(cmdQ)
           out == RedisRun(e.cmds, Store)
       IN  /\ usednames' = out.st.usednames
           /\ player' = out.st.player
           /\ scores' = out.st.scores
           /\ coins' = out.st.coins
           /\ replyQ' = IF e.cb /\ ~crashed
                        THEN Append(replyQ, [call |-> e.call, res |-> out.res])
                        ELSE replyQ
           /\ depletions' = IF e.cmds[1].op = "hdel" /\ CoinCount(coins) > 0
                               /\ CoinCount(out.st.coins) = 0
                            THEN depletions + 1 ELSE depletions
           /\ picked' = IF e.cmds[1].op = "hdel" /\ e.cmds[1].cell \in DOMAIN coins
                        THEN picked + coins[e.cmds[1].cell] ELSE picked
    /\ cmdQ' = Tail(cmdQ)
    /\ UNCHANGED <<calls, nAdds, nMoves, outcomes, crashed, triggers>>
    /\ UNCHANGED sessVars

\* -------------------------------------------------------------- callbacks
Dispatch(kind, pc) ==
    /\ ~crashed
    /\ replyQ # << >>
    /\ calls[Head(replyQ).call].kind = kind
    /\ calls[Head(replyQ).call].pc = pc

\* addPlayer: callback of sismember
AddSismemberReply ==
    /\ Dispatch("add", "sismember")
    /\ LET r == Head(replyQ)
           c == calls[r.call]
       IN  IF NameRejected(c.name, r.res[1])
           THEN /\ calls' = [calls EXCEPT ![r.call] = IdleCall]
                /\ outcomes' = [outcomes EXCEPT ![c.name].rejected = @ + 1]
                /\ cmdQ' = cmdQ
                /\ sessions' = NameRefused(c.sess)
           ELSE \E point \in randomPoint(WIDTH, HEIGHT) :
                /\ calls' = [calls EXCEPT ![r.call].pc = "exec"]
                /\ outcomes' = outcomes
                /\ cmdQ' = Append(cmdQ, Multi(r.call, AddBatch(c.name, point)))
                /\ sessions' = sessions
    /\ replyQ' = Tail(replyQ)
    /\ UNCHANGED <<usednames, player, scores, coins, nAdds, nMoves, crashed,
                   depletions, triggers>>
    /\ UNCHANGED <<picked, broadcasts, snapshot>>

\* addPlayer: callback of multiSubmit.exec
AddExecReply ==
    /\ Dispatch("add", "exec")
    /\ LET r == Head(replyQ)
           c == calls[r.call]
       IN  /\ outcomes' = IF AddOutcome(r.res)
                          THEN [outcomes EXCEPT ![c.name].admitted = @ + 1]
                          ELSE [outcomes EXCEPT ![c.name].rejected = @ + 1,
                                                ![c.name].raced = @ + 1]
           /\ IF AddOutcome(r.res) /\ c.sess # 0
              THEN \* index.js: welcome, game.state(...), removeListener, on('move')
                   /\ sessions' = NameAccepted(c.sess, c.name)
                   /\ calls' = [calls EXCEPT ![r.call] =
                                   StateCall(c.sess, {n \in StoreNames : outcomes'[n].admitted >= 1})]
                   /\ cmdQ' = Append(cmdQ, Single(r.call, Cmd("keys", "", Null, 0), TRUE))
              ELSE /\ sessions' = IF AddOutcome(r.res) THEN sessions
                                  ELSE NameRefused(c.sess)
                   /\ calls' = [calls EXCEPT ![r.call] = IdleCall]
                   /\ cmdQ' = cmdQ
    /\ replyQ' = Tail(replyQ)
    /\ UNCHANGED <<usednames, player, scores, coins, nAdds, nMoves,
                   crashed, depletions, triggers>>
    /\ UNCHANGED <<picked, broadcasts, snapshot>>

\* move: callback of get.  res.split throws a TypeError when res is null.
MoveGetReply ==
    /\ Dispatch("move", "get")
    /\ LET r == Head(replyQ)
           c == calls[r.call]
       IN  IF r.res[1] = Null
           THEN /\ crashed' = TRUE
                /\ calls' = [calls EXCEPT ![r.call].pc = "threw"]
                /\ cmdQ' = cmdQ
                /\ replyQ' = << >>
           ELSE LET np == NewPos(r.res[1], Delta(c.dir))
                IN  /\ calls' = [calls EXCEPT ![r.call].pc = "hget",
                                               ![r.call].pos = r.res[1],
                                               ![r.call].newpos = np]
                    /\ cmdQ' = Append(cmdQ, Single(r.call, Cmd("hget", "", np, 0), TRUE))
                    /\ crashed' = crashed
                    /\ replyQ' = Tail(replyQ)
    /\ UNCHANGED <<usednames, player, scores, coins, nAdds, nMoves, outcomes,
                   depletions, triggers>>
    /\ UNCHANGED <<picked, sessions, broadcasts, snapshot>>

\* move: callback of hget
MoveHgetReply ==
    /\ Dispatch("move", "hget")
    /\ LET r == Head(replyQ)
           c == calls[r.call]
       IN  /\ calls' = [calls EXCEPT ![r.call].pc = "hlen",
                                      ![r.call].coin = r.res[1]]
           /\ cmdQ' = cmdQ \o MoveWrites(r.call, c.name, c.newpos, r.res[1])
    /\ replyQ' = Tail(replyQ)
    /\ UNCHANGED <<usednames, player, scores, coins, nAdds, nMoves, outcomes,
                   crashed, depletions, triggers>>
    /\ UNCHANGED <<picked, sessions, broadcasts, snapshot>>

\* move: callback of hlen; placeCoins() starts by sending DEL
MoveHlenReply ==
    /\ Dispatch("move", "hlen")
    /\ LET r == Head(replyQ)
       IN  IF r.res[1] = 0
           THEN /\ calls' = [calls EXCEPT ![r.call].pc = "del"]
                /\ cmdQ' = Append(cmdQ, Single(r.call, Cmd("del", "", Null, 0), TRUE))
                /\ triggers' = triggers + 1
           ELSE /\ calls' = [calls EXCEPT ![r.call] = IdleCall]
                /\ cmdQ' = cmdQ
                /\ triggers' = triggers
    /\ replyQ' = Tail(replyQ)
    /\ UNCHANGED <<usednames, player, scores, coins, nAdds, nMoves, outcomes,
                   crashed, depletions>>
    /\ UNCHANGED <<picked, sessions, broadcasts, snapshot>>

\* placeCoins: callback of del
PlaceDelReply ==
    /\ ~crashed
    /\ replyQ # << >>
    /\ calls[Head(replyQ).call].pc = "del"
    /\ LET r == Head(replyQ)
       IN  \E perm \in permutationSlice(WIDTH * HEIGHT, NUM_COINS) :
             /\ calls' = [calls EXCEPT ![r.call].pc = "coinexec"]
             /\ cmdQ' = Append(cmdQ, Multi(r.call, CoinBatch(perm)))
    /\ replyQ' = Tail(replyQ)
    /\ UNCHANGED <<usednames, player, scores, coins, nAdds, nMoves, outcomes,
                   crashed, depletions, triggers>>
    /\ UNCHANGED <<picked, sessions, broadcasts, snapshot>>

\* placeCoins: callback of multiSubmit.exec (logs only)
PlaceExecReply ==
    /\ ~crashed
    /\ replyQ # << >>
    /\ calls[Head(replyQ).call].pc = "coinexec"
    /\ calls' = [calls EXCEPT ![Head(replyQ).call] = IdleCall]
    /\ replyQ' = Tail(replyQ)
    /\ UNCHANGED <<usednames, player, scores, coins, cmdQ, nAdds, nMoves,
                   outcomes, crashed, depletions, triggers>>
    /\ UNCHANGED <<picked, sessions, broadcasts, snapshot>>

\* ------------------------------------------------- state(): the callbacks
\* callback of keys: mget(names)
StateKeysReply ==
    /\ Dispatch("state", "keys")
    /\ LET r == Head(replyQ)
       IN  /\ calls' = [calls EXCEPT ![r.call].pc = "mget",
                                      ![r.call].names = r.res[1]]
           /\ cmdQ' = Append(cmdQ, Single(r.call, Cmd("mget", "", r.res[1], 0), TRUE))
    /\ replyQ' = Tail(replyQ)
    /\ UNCHANGED <<usednames, player, scores, coins, nAdds, nMoves, outcomes,
                   crashed, depletions, triggers, picked>>
    /\ UNCHANGED sessVars

\* callback of mget.  MGET without a key is an error reply: callback(err),
\* and index.js emits 'state' with an undefined snapshot.
StateMgetReply ==
    /\ Dispatch("state", "mget")
    /\ LET r == Head(replyQ)
           c == calls[r.call]
       IN  IF c.names = << >>
           THEN /\ calls' = [calls EXCEPT ![r.call] = IdleCall]
                /\ cmdQ' = cmdQ
                /\ broadcasts' = broadcasts + 1
                /\ snapshot' = Null
           ELSE /\ calls' = [calls EXCEPT
                     ![r.call].pc = "zrevrange",
                     ![r.call].positions =
                         [n \in {c.names[i] : i \in 1 .. Len(c.names)} |->
                             r.res[1][CHOOSE i \in 1 .. Len(c.names) : c.names[i] = n]]]
                /\ cmdQ' = Append(cmdQ, Single(r.call, Cmd("zrevrange", "", Null, 0), TRUE))
                /\ broadcasts' = broadcasts
                /\ snapshot' = snapshot
    /\ replyQ' = Tail(replyQ)
    /\ UNCHANGED <<usednames, player, scores, coins, nAdds, nMoves, outcomes,
                   crashed, depletions, triggers, picked, sessions>>

\* callback of zrevrange: the score pairs, then hgetall
StateZrevrangeReply ==
    /\ Dispatch("state", "zrevrange")
    /\ LET r == Head(replyQ)
       IN  /\ calls' = [calls EXCEPT ![r.call].pc = "hgetall",
                                      ![r.call].scores = ScorePairs(r.res[1])]
           /\ cmdQ' = Append(cmdQ, Single(r.call, Cmd("hgetall", "", Null, 0), TRUE))
    /\ replyQ' = Tail(replyQ)
    /\ UNCHANGED <<usednames, player, scores, coins, nAdds, nMoves, outcomes,
                   crashed, depletions, triggers, picked>>
    /\ UNCHANGED sessVars

\* callback of hgetall: callback(null, {positions, scores, coins}), which
\* in index.js is io.emit('state', res)
StateHgetallReply ==
    /\ Dispatch("state", "hgetall")
    /\ LET r == Head(replyQ)
           c == calls[r.call]
       IN  /\ calls' = [calls EXCEPT ![r.call] = IdleCall]
           /\ snapshot' = [positions |-> c.positions, scores |-> c.scores,
                           coins |-> r.res[1]]
    /\ broadcasts' = broadcasts + 1
    /\ replyQ' = Tail(replyQ)
    /\ UNCHANGED <<usednames, player, scores, coins, cmdQ, nAdds, nMoves,
                   outcomes, crashed, depletions, triggers, picked, sessions>>

\* ------------------------------------------------- index.js: the listeners
\* a 'name' message while nameListener is registered
SessName(sess, raw) ==
    /\ ~crashed
    /\ sessions[sess].listening
    /\ nAdds < MaxAdds
    /\ FreeSlots # {}
    /\ nAdds' = nAdds + 1
    /\ calls' = [calls EXCEPT ![FreeSlot] =
                    [NewCall("add", trim(raw), "", "sismember") EXCEPT !.sess = sess]]
    /\ cmdQ' = Append(cmdQ, Single(FreeSlot, Cmd("sismember", trim(raw), Null, 0), TRUE))
    /\ UNCHANGED <<usednames, player, scores, coins, replyQ, nMoves, outcomes,
                   crashed, depletions, triggers, picked>>
    /\ UNCHANGED sessVars

\* game.move(direction, name, ...) for each name of names in turn; st holds
\* the calls and the commands sent
RECURSIVE StartMoves(_, _, _, _)
StartMoves(st, direction, names, sess) ==
    IF names = << >> \/ Delta(direction) = Null THEN st
    ELSE LET idle == {s \in Slots \ {0} : st.calls[s].pc = "idle"}
             slot == CHOOSE s \in idle : \A t \in idle : s <= t
             call == [NewCall("move", Head(names), direction, "get") EXCEPT !.sess = sess]
         IN  StartMoves([calls |-> [st.calls EXCEPT ![slot] = call],
                         cmdQ  |-> Append(st.cmdQ,
                                     Single(slot, Cmd("get", Head(names), Null, 0), TRUE))],
                        direction, Tail(names), sess)

\* a 'move' message: every move listener registered on the socket runs
SessMove(sess, direction) ==
    /\ ~crashed
    /\ sessions[sess].handlers # << >>
    /\ nMoves + Len(sessions[sess].handlers) <= MaxMoves
    /\ Cardinality(FreeSlots) >= Len(sessions[sess].handlers)
    /\ nMoves' = nMoves + Len(sessions[sess].handlers)
    /\ LET st == StartMoves([calls |-> calls, cmdQ |-> cmdQ], direction,
                            sessions[sess].handlers, sess)
       IN  calls' = st.calls /\ cmdQ' = st.cmdQ
    /\ UNCHANGED <<usednames, player, scores, coins, replyQ, nAdds, outcomes,
                   crashed, depletions, triggers, picked>>
    /\ UNCHANGED sessVars

Next ==
    \/ \E name \in Names : CallAddPlayer(name)
    \/ \E direction \in Directions, name \in MoveNames : CallMove(direction, name)
    \/ RedisExec
    \/ AddSismemberReply
    \/ AddExecReply
    \/ MoveGetReply
    \/ MoveHgetReply
    \/ MoveHlenReply
    \/ PlaceDelReply
    \/ PlaceExecReply

Spec == Init /\ [][Next]_vars

\* The engine called for the one admissible name and, by move, also for a
\* name that is never admitted; every command sent is eventually executed
\* and every reply eventually dispatched to its callback (the event loop
\* starves no callback).
StrangerNames == {Name33}

LiveNext ==
    \/ \E name \in MoveNames : CallAddPlayer(name)
    \/ \E direction \in Directions, name \in MoveNames \cup StrangerNames :
          CallMove(direction, name)
    \/ RedisExec
    \/ AddSismemberReply
    \/ AddExecReply
    \/ MoveGetReply
    \/ MoveHgetReply
    \/ MoveHlenReply
    \/ PlaceDelReply
    \/ PlaceExecReply

LiveSpec ==
    /\ Init /\ [][LiveNext]_vars
    /\ WF_vars(RedisExec)
    /\ WF_vars(AddSismemberReply)
    /\ WF_vars(AddExecReply)
    /\ WF_vars(MoveGetReply)
    /\ WF_vars(MoveHgetReply)
    /\ WF_vars(MoveHlenReply)
    /\ WF_vars(PlaceDelReply)
    /\ WF_vars(PlaceExecReply)

\* the server of index.js: the engine is called by the socket listeners only
SessionNext ==
    \/ \E sess \in Sessions, raw \in RawNames : SessName(sess, raw)
    \/ \E sess \in Sessions, direction \in SessDirections : SessMove(sess, direction)
    \/ RedisExec
    \/ AddSismemberReply
    \/ AddExecReply
    \/ MoveGetReply
    \/ MoveHgetReply
    \/ MoveHlenReply
    \/ PlaceDelReply
    \/ PlaceExecReply
    \/ StateKeysReply
    \/ StateMgetReply
    \/ StateZrevrangeReply
    \/ StateHgetallReply

SessionSpec == Init /\ [][SessionNext]_vars

\* -------------------------------------------------------- state() alone
\* the store of Init
EmptyStore ==
    [usednames |-> {}, player |-> [n \in StoreNames |-> Null],
     scores |-> [n \in StoreNames |-> NoScore], coins |-> [k \in Cells |-> 0]]

\* the coin fields one placeCoins batch writes, some coins picked up since
CoinFields ==
    {f \in [Cells -> {0, 1, 2, 5, 10}] :
        /\ CoinCount(f) > 0
        /\ \E perm \in permutationSlice(WIDTH * HEIGHT, NUM_COINS) :
              LET full == RedisRun(CoinBatch(perm), EmptyStore).st.coins
              IN  \A k \in Cells : f[k] \in {0, full[k]}}

\* A server in which some of the names the sessions send are admitted, with
\* any position and any score up to MaxScore, and nothing is in progress.
InitSnapshot ==
    /\ usednames \in SUBSET {trim(raw) : raw \in RawNames}
    /\ usednames # {}
    /\ player \in [StoreNames -> Cells \cup {Null}]
    /\ \A n \in StoreNames : player[n] # Null <=> n \in usednames
    /\ scores \in [StoreNames -> {NoScore} \cup (0 .. MaxScore)]
    /\ \A n \in StoreNames : scores[n] # NoScore <=> n \in usednames
    /\ coins \in CoinFields
    /\ calls = [s \in Slots |-> IdleCall]
    /\ nAdds = 0
    /\ nMoves = 0
    /\ outcomes = [n \in StoreNames |->
                      [admitted |-> IF n \in usednames THEN 1 ELSE 0,
                       rejected |-> 0, raced |-> 0]]
    /\ cmdQ = << >>
    /\ replyQ = << >>
    /\ crashed = FALSE
    /\ depletions = 0
    /\ triggers = 0
    /\ picked = 0
    /\ sessions = [k \in Sessions |->
                      [listening |-> TRUE, handlers |-> << >>,
                       welcomes |-> 0, badnames |-> 0]]
    /\ broadcasts = 0
    /\ snapshot = Null

\* game.state((err, res) => io.emit('state', res))
CallState ==
    /\ ~crashed
    /\ FreeSlots # {}
    /\ broadcasts + Cardinality({s \in Slots : calls[s].kind = "state"}) < MaxSnapshots
    /\ calls' = [calls EXCEPT ![FreeSlot] =
                    StateCall(0, {n \in StoreNames : outcomes[n].admitted >= 1})]
    /\ cmdQ' = Append(cmdQ, Single(FreeSlot, Cmd("keys", "", Null, 0), TRUE))
    /\ UNCHANGED <<usednames, player, scores, coins, replyQ, nAdds, nMoves,
                   outcomes, crashed, depletions, triggers, picked>>
    /\ UNCHANGED sessVars

SnapshotNext ==
    \/ CallState
    \/ RedisExec
    \/ StateKeysReply
    \/ StateMgetReply
    \/ StateZrevrangeReply
    \/ StateHgetallReply

SnapshotSpec == InitSnapshot /\ [][SnapshotNext]_vars

\* ================================================================ claims
ValidName(n) == Len(n) >= 1 /\ Len(n) <= 32

AddInFlight(n) == \E s \in Slots : calls[s].kind = "add" /\ calls[s].name = n

\* Redis is executing the head of cmdQ in this step, and its first command is op
Executes(op) ==
    /\ cmdQ # << >>
    /\ cmdQ' = Tail(cmdQ)
    /\ Head(cmdQ).cmds[1].op = op

PosNames == {n \in Names : player[n] # Null}
ScoreNames == {n \in Names : scores[n] # NoScore}

InGrid(p) == /\ 0 <= p[1] /\ p[1] < WIDTH
             /\ 0 <= p[2] /\ p[2] < HEIGHT

Abs(i) == IF i < 0 THEN -i ELSE i

\* C1: of the addPlayer calls made for one name of length 1..32, at most one
\* reports Admitted at any time, and once none of them is in progress any
\* more exactly one has reported Admitted and every other one rejection
\* (so a call made after the admission is rejected too).
C1_OneAdmissionPerName ==
    \A n \in Names : ValidName(n) =>
        /\ outcomes[n].admitted <= 1
        /\ (outcomes[n].admitted + outcomes[n].rejected >= 1 /\ ~AddInFlight(n))
              => outcomes[n].admitted = 1
        /\ outcomes[n].admitted = 1 => n \in usednames

\* two calls for the same name both got past the sismember check; one was
\* admitted and the other rejected by its batch
C1_Witness ==
    \E n \in Names :
        /\ ValidName(n)
        /\ outcomes[n].admitted = 1
        /\ outcomes[n].raced = 1
        /\ ~AddInFlight(n)

\* C2: a step Redis executes for an addPlayer call that then reports
\* rejection changes neither the registry nor any position record nor any
\* score-board entry.
C2_RejectedAddWritesNothing ==
    [][ (Executes("sadd") /\ ~AddOutcome(RedisRun(Head(cmdQ).cmds, Store).res))
           => UNCHANGED <<usednames, player, scores>> ]_vars

\* C3: an empty or over-long name is never admitted and never written to
\* the registry, the positions or the score board, and no write for it is
\* ever sent.
C3_InvalidNameRejected ==
    \A n \in Names : ~ValidName(n) =>
        /\ outcomes[n].admitted = 0
        /\ n \notin usednames
        /\ player[n] = Null
        /\ scores[n] = NoScore
        /\ \A i \in 1 .. Len(cmdQ) : \A j \in 1 .. Len(cmdQ[i].cmds) :
              cmdQ[i].cmds[j].op \in {"sadd", "set", "zadd", "zincrby"}
                 => cmdQ[i].cmds[j].name # n
        /\ \A s \in Slots : (calls[s].kind = "add" /\ calls[s].name = n)
              => calls[s].pc = "sismember"

\* an invalid name has been rejected while another name was registered
C3_Witness ==
    \E n \in Names :
        /\ ~ValidName(n)
        /\ outcomes[n].rejected >= 1
        /\ usednames # {}

\* C4: the registry, the names with a position record and the names with a
\* score-board entry are the same set in every reachable state.
C4_RegistryPositionsScoresAgree ==
    /\ usednames = PosNames
    /\ usednames = ScoreNames

\* an admitted player that has moved and scored
C4_Witness ==
    \E n \in usednames :
        /\ scores[n] > 0
        /\ outcomes[n].admitted = 1

StepInGrid(p, d) ==
    LET q == CASE d = "U" -> <<p[1], p[2] - 1>>
               [] d = "R" -> <<p[1] + 1, p[2]>>
               [] d = "D" -> <<p[1], p[2] + 1>>
               [] d = "L" -> <<p[1] - 1, p[2]>>
    IN  IF InGrid(q) THEN q ELSE p

\* C6: the SET of a move commits, for the position (x, y) the move read and
\* its direction, the neighbouring cell in that direction, or (x, y) itself
\* when that neighbour is outside the grid; so the committed position is in
\* the grid and at most one unit away on one axis.
C6_MoveCommitsClampedStep ==
    [][ (Executes("set") /\ ~Head(cmdQ).cb) =>
          LET m   == calls[Head(cmdQ).call]
              new == player'[m.name]
          IN  /\ m.kind = "move"
              /\ new = StepInGrid(m.pos, m.dir)
              /\ InGrid(new)
              /\ Abs(new[1] - m.pos[1]) + Abs(new[2] - m.pos[2]) <= 1 ]_vars

\* a move made while no other call is in progress has committed a step to a
\* neighbouring cell
C6_Witness ==
    \E s \in Slots :
        /\ calls[s].kind = "move"
        /\ calls[s].pc = "hlen"
        /\ calls[s].newpos # calls[s].pos
        /\ \A t \in Slots \ {s} : calls[t].pc = "idle"
        /\ \A i \in 1 .. Len(cmdQ) :
              cmdQ[i].call = s => cmdQ[i].cmds[1].op = "hlen"
        /\ player[calls[s].name] = calls[s].newpos

\* C7: of the steps Redis executes for a move call after its hget: when
\* hget found a coin of value v, the ZINCRBY raises the mover's score by
\* exactly v and the HDEL leaves the destination cell without a coin; when
\* hget found no coin, no step made for that move (the refill it may
\* trigger included) changes the mover's score or the coin field.
C7_PickupAccounting ==
    [][ (/\ cmdQ # << >>
         /\ cmdQ' = Tail(cmdQ)
         /\ calls[Head(cmdQ).call].kind = "move"
         /\ calls[Head(cmdQ).call].pc \in {"hlen", "del", "coinexec"}) =>
          LET m  == calls[Head(cmdQ).call]
              op == Head(cmdQ).cmds[1].op
          IN  IF m.coin # 0
              THEN /\ op = "zincrby" => scores'[m.name] = scores[m.name] + m.coin
                   /\ op = "hdel" => coins'[m.newpos] = 0
              ELSE /\ scores'[m.name] = scores[m.name]
                   /\ coins' = coins ]_vars

\* C8: the coin field never holds more than NUM_COINS coins, and every coin
\* has one of the values 1, 2, 5, 10.
C8_CoinFieldBounded ==
    /\ CoinCount(coins) <= NUM_COINS
    /\ \A k \in DOMAIN coins : coins[k] \in {0, 1, 2, 5, 10}

Quiescent == cmdQ = << >> /\ replyQ = << >> /\ ~crashed

\* C9: move never calls placeCoins more often than the coin field has been
\* emptied by pickups, and once every call has finished it has called it
\* exactly once per depletion and the field is not empty.
C9_OneRefillPerDepletion ==
    /\ triggers <= depletions
    /\ Quiescent => (triggers = depletions /\ CoinCount(coins) > 0)

\* the number of coins of value v one placeCoins batch writes
TierSize(v) == Cardinality({i \in 0 .. NUM_COINS - 1 : coinValue(i) = v})

\* C10: right after Redis has executed the batch of a placeCoins call, the
\* coin field holds exactly NUM_COINS coins, split over the four values as
\* the tiers say.
C10_PlaceCoinsResult ==
    [][ Executes("hsetnx") =>
          /\ CoinCount(coins') = NUM_COINS
          /\ \A v \in {1, 2, 5, 10} :
                Cardinality({k \in DOMAIN coins' : coins'[k] = v}) = TierSize(v)
       ]_vars

\* the writes move call s has sent and Redis has not executed yet
PendingWrites(s) ==
    {cmdQ[i].cmds[1].op : i \in {j \in 1 .. Len(cmdQ) : cmdQ[j].call = s /\ ~cmdQ[j].cb}}

\* move call s has sent its writes (it waits for the reply of hlen)
WritesSent(s) == calls[s].kind = "move" /\ calls[s].pc = "hlen"

\* C11: the writes of a move that found a coin are applied with the credit
\* first (in no state has its HDEL been executed while its ZINCRBY has
\* not), and while only some of them are applied the next command Redis
\* executes is again one of that move: no command of another call, a read
\* included, is executed in between.
C11_MoveWritesUnobservedApart ==
    \A s \in Slots : (WritesSent(s) /\ calls[s].coin # 0) =>
        /\ "hdel" \notin PendingWrites(s) => "zincrby" \notin PendingWrites(s)
        /\ (PendingWrites(s) # {} /\ PendingWrites(s) # {"zincrby", "hdel", "set"})
              => Head(cmdQ).call = s

\* a pickup is half applied (credited and removed, position not yet
\* written) while another call is in progress
C11_Witness ==
    \E s \in Slots :
        /\ WritesSent(s)
        /\ calls[s].coin # 0
        /\ PendingWrites(s) = {"set"}
        /\ \E t \in Slots \ {0, s} : calls[t].pc \notin {"idle", "threw"}

\* C12: two moves of one player that are in progress together and have
\* both read position P leave the player, once the SET of both has been
\* executed, where one of the two serial orders of the two steps from P
\* leads.
C12_ConcurrentMovesSerial ==
    \A s, t \in Slots :
        (/\ s # t
         /\ WritesSent(s) /\ WritesSent(t)
         /\ calls[s].name = calls[t].name
         /\ calls[s].pos = calls[t].pos
         /\ PendingWrites(s) = {} /\ PendingWrites(t) = {}
         /\ outcomes[calls[s].name].raced = 0
         /\ ~AddInFlight(calls[s].name))
        => player[calls[s].name] \in
              { StepInGrid(StepInGrid(calls[s].pos, calls[s].dir), calls[t].dir),
                StepInGrid(StepInGrid(calls[s].pos, calls[t].dir), calls[s].dir) }

\* C13: a score-board entry is created with score 0 and no step ever
\* lowers the score of a name on the score board.
C13_ScoreMonotone ==
    [][ \A n \in Names :
          /\ (scores[n] = NoScore /\ scores'[n] # NoScore) => scores'[n] = 0
          /\ scores[n] # NoScore => scores'[n] >= scores[n] ]_vars

\* a second addPlayer batch for the name has been executed (and rejected),
\* and the player has scored since
C13_Witness ==
    \E n \in Names :
        /\ outcomes[n].admitted = 1
        /\ outcomes[n].raced >= 1
        /\ scores[n] > 0

\* C15: the get callback of a move whose name has no position record
\* returns without changing the store, without sending a command and
\* without an exception escaping.
C15_UnknownPlayerMoveSilent ==
    [][ (/\ Dispatch("move", "get")
         /\ Head(replyQ).res[1] = Null
         /\ Len(replyQ') < Len(replyQ))
        => /\ ~crashed'
           /\ UNCHANGED <<usednames, player, scores, coins, cmdQ>> ]_vars

Idle == Quiescent /\ \A s \in Slots : calls[s].pc = "idle"

RECURSIVE SumOver(_, _)
SumOver(S, f) ==
    IF S = {} THEN 0
    ELSE LET x == CHOOSE y \in S : TRUE
         IN  f[x] + SumOver(S \ {x}, f)

Welcomes == SumOver(Sessions, [k \in Sessions |-> sessions[k].welcomes])

\* C14: once nothing is in progress any more (no command, no reply, no
\* call), a snapshot has been broadcast for every welcome sent and for every
\* move call made by a move listener.
C14_SnapshotAfterAdmissionAndMove ==
    Idle => broadcasts >= Welcomes + nMoves

C18_FieldNeverLeftEmpty ==
    (cmdQ = << >> /\ crashed) => CoinCount(coins) > 0

Points == SumOver(StoreNames, [n \in StoreNames |->
                                  IF scores[n] = NoScore THEN 0 ELSE scores[n]])

\* C19: whenever no credit and no removal is waiting to be executed, the
\* scores add up to the value of the coins removed from the field.
C19_CoinCreditedOnce ==
    (\A s \in Slots : PendingWrites(s) \cap {"zincrby", "hdel"} = {})
        => Points = picked

\* C20: a socket is sent at most one welcome, has at most one move listener
\* (so one move message moves one player), and every move call made for it
\* is for a name admitted for it.
C20_OnePlayerPerSession ==
    \A k \in Sessions :
        /\ sessions[k].welcomes <= 1
        /\ Len(sessions[k].handlers) <= 1
        /\ \A s \in Slots : (calls[s].kind = "move" /\ calls[s].sess = k) =>
              /\ outcomes[calls[s].name].admitted >= 1
              /\ \E i \in 1 .. Len(sessions[k].handlers) :
                    sessions[k].handlers[i] = calls[s].name
====
